---- MODULE Spec2Model ----
(***************************************************************************)
(* Tasks API (src/main.py): a FastAPI service over one SQLAlchemy table.   *)
(*                                                                         *)
(* The state is the "tasks" table, the wall clock that datetime.utcnow     *)
(* reads, the database dialect selected by DATABASE_URL, the highest id    *)
(* the store has handed out, the last request with its response, and the   *)
(* number of steps taken so far.                                           *)
(* Every endpoint is one action that models the whole handler, from        *)
(* request validation to the commit and the response-model check.          *)
(*                                                                         *)
(* Spec runs the service from the empty table for MaxSteps steps with a    *)
(* few payloads; SpecOne serves one request, from a wide set of payloads   *)
(* and queries, on each of a set of tables that such runs leave behind.    *)
(*                                                                         *)
(* JSON values are tuples, so that values of different kinds can be        *)
(* compared: a text is <<unit, n>> (unit repeated n times), a boolean is   *)
(* <<"true">> or <<"false">>, None/null is <<>>, and a field that does not *)
(* occur in a payload or query string is <<"absent">>.                     *)
(***************************************************************************)
EXTENDS Integers, Sequences, FiniteSets, TLC

VARIABLES tasks, clock, dialect, lastId, req, resp, steps

vars == <<tasks, clock, dialect, lastId, req, resp, steps>>

\* ------------------------------------------------------------- bounds
\* Steps (requests and clock ticks) in one run from the empty store.
MaxSteps == 4
\* Rows of a store, and the skip and limit values, of the single-request runs.
MaxRows == 3
MaxSkip == 2
MaxLimit == 2

\* ------------------------------------------------- program constants
TitleMin == 1
TitleMax == 255
DescriptionMax == 1000
DefaultSkip == 0
DefaultLimit == 100

\* -------------------------------------------------------- JSON values
Absent == <<"absent">>
Null == <<>>
True == <<"true">>
False == <<"false">>
Text(unit, n) == <<unit, n>>
IsText(v) == Len(v) = 2
TextLen(v) == Len(v[1]) * v[2]
IsBool(v) == v \in {True, False}

Low == Text("low", 1)
Medium == Text("medium", 1)
High == Text("high", 1)
Urgent == Text("urgent", 1)
Empty == Text("", 0)

\* priority: pattern "^(low|medium|high)$"
PriorityPattern == {Low, Medium, High}

Fields == {"title", "description", "completed", "priority"}

Body(t, d, c, p) == [title |-> t, description |-> d, completed |-> c, priority |-> p]

NoBody == Body(Absent, Absent, Absent, Absent)

Query(s, l, c, p) == [skip |-> s, limit |-> l, completed |-> c, priority |-> p]

NoQuery == Query(DefaultSkip, DefaultLimit, Absent, Absent)

\* ---------------------------------------------------------- validation
\* Field(..., min_length, max_length) on a str.
LengthOk(v, lo, hi) == IsText(v) /\ TextLen(v) >= lo /\ TextLen(v) <= hi

\* TaskCreate (TaskBase): title is a required str of 1..255 characters,
\* description an Optional str of at most 1000, completed a bool with
\* default False, priority a str matching the pattern, default "medium".
ValidTaskCreate(b) ==
    /\ LengthOk(b.title, TitleMin, TitleMax)
    /\ b.description \in {Absent, Null} \/ LengthOk(b.description, 0, DescriptionMax)
    /\ b.completed = Absent \/ IsBool(b.completed)
    /\ b.priority = Absent \/ b.priority \in PriorityPattern

\* Variant: priority of TaskUpdate declared without its pattern.
ValidTaskUpdateNoPattern(b) ==
    /\ b.title \in {Absent, Null} \/ LengthOk(b.title, TitleMin, TitleMax)
    /\ b.description \in {Absent, Null} \/ LengthOk(b.description, 0, DescriptionMax)
    /\ b.completed \in {Absent, Null} \/ IsBool(b.completed)
    /\ b.priority \in {Absent, Null} \/ IsText(b.priority)

\* TaskUpdate: every field is Optional with default None, so an explicit
\* null passes; a supplied str is checked as in TaskBase.
ValidTaskUpdate(b) ==
    /\ b.title \in {Absent, Null} \/ LengthOk(b.title, TitleMin, TitleMax)
    /\ b.description \in {Absent, Null} \/ LengthOk(b.description, 0, DescriptionMax)
    /\ b.completed \in {Absent, Null} \/ IsBool(b.completed)
    /\ b.priority \in {Absent, Null} \/ b.priority \in PriorityPattern

\* Variant: priority declared with the default "low".
CreateDumpDefaultLow(b) ==
    [title |-> b.title,
     description |-> IF b.description = Absent THEN Null ELSE b.description,
     completed |-> IF b.completed = Absent THEN False ELSE b.completed,
     priority |-> IF b.priority = Absent THEN Low ELSE b.priority]

\* task.model_dump(): the payload with the model's defaults filled in.
CreateDump(b) ==
    [title |-> b.title,
     description |-> IF b.description = Absent THEN Null ELSE b.description,
     completed |-> IF b.completed = Absent THEN False ELSE b.completed,
     priority |-> IF b.priority = Absent THEN Medium ELSE b.priority]

\* Variant: model_dump(exclude_none=True), which takes a field for sent
\* when its value is not None.
UpdateDataExcludeNone(b) == {f \in Fields : b[f] # Absent /\ b[f] # Null}

\* task_update.model_dump(exclude_unset=True): the fields that were sent.
UpdateData(b) == {f \in Fields : b[f] # Absent}

\* TaskResponse (TaskBase + id, created_at, updated_at) validates a row on
\* the way out; a row that fails it ends the request with a 500.
ResponseValid(t) ==
    /\ LengthOk(t.title, TitleMin, TitleMax)
    /\ t.description = Null \/ LengthOk(t.description, 0, DescriptionMax)
    /\ IsBool(t.completed)
    /\ t.priority \in PriorityPattern

\* ---------------------------------------------------------------- store
\* tasks maps the ids in the table to their rows.
Max(S) == CHOOSE x \in S : \A y \in S : y <= x

\* DATABASE_URL: SQLite by default, any other engine when set.
Dialects == {"sqlite", "other"}

\* Integer primary key: SQLite (a rowid alias without AUTOINCREMENT) takes
\* the largest id in the table plus one; other engines draw from a sequence.
NextId ==
    IF dialect = "sqlite"
    THEN IF DOMAIN tasks = {} THEN 1 ELSE Max(DOMAIN tasks) + 1
    ELSE lastId + 1

AsTask(t, i) ==
    [id |-> i,
     title |-> t[i].title,
     description |-> t[i].description,
     completed |-> t[i].completed,
     priority |-> t[i].priority,
     created_at |-> t[i].created_at,
     updated_at |-> t[i].updated_at]

Insert(i, row) == [j \in DOMAIN tasks \cup {i} |-> IF j = i THEN row ELSE tasks[j]]

Remove(i) == [j \in DOMAIN tasks \ {i} |-> tasks[j]]

\* title is nullable=False: the commit of a NULL title raises IntegrityError.
NotNullOk(row) == row.title # Null

\* The request served in step number "at" of the run.
Request(op, id, body, query) ==
    [at |-> steps + 1, op |-> op, id |-> id, body |-> body, query |-> query]

Response(status, outcome, ts, total) ==
    [status |-> status, outcome |-> outcome, tasks |-> ts, total |-> total]

\* A request that ends without touching the table.
Answer(r, status, outcome) ==
    /\ req' = r
    /\ resp' = Response(status, outcome, <<>>, 0)
    /\ UNCHANGED <<tasks, clock, lastId, dialect>>

\* ----------------------------------------------------------------- Init
Init ==
    /\ steps = 0
    /\ tasks = <<>>
    /\ clock = 0
    /\ dialect \in Dialects
    /\ lastId = 0
    /\ req = [Request("none", 0, NoBody, NoQuery) EXCEPT !.at = 0]
    /\ resp = Response("none", "none", <<>>, 0)

\* datetime.utcnow moves on between requests.
Tick ==
    /\ clock' = clock + 1
    /\ UNCHANGED <<tasks, dialect, lastId, req, resp>>

\* created_at and updated_at each call datetime.utcnow, in column order:
\* t1, then t2 >= t1.
NewRow(b, t1, t2) ==
    [title |-> CreateDump(b).title,
     description |-> CreateDump(b).description,
     completed |-> CreateDump(b).completed,
     priority |-> CreateDump(b).priority,
     created_at |-> t1,
     updated_at |-> t2]

\* POST /tasks
create_task(b, t2) ==
    LET r == Request("create", 0, b, NoQuery) IN
    IF ~ValidTaskCreate(b)
    THEN t2 = clock /\ Answer(r, "422", "invalid")
    ELSE /\ tasks' = Insert(NextId, NewRow(b, clock, t2))
         /\ lastId' = IF NextId > lastId THEN NextId ELSE lastId
         /\ clock' = t2
         /\ req' = r
         /\ resp' = Response("201", "returned", <<AsTask(tasks', NextId)>>, 0)
         /\ UNCHANGED dialect

\* GET /tasks/{task_id}
get_task(id) ==
    LET r == Request("get", id, NoBody, NoQuery) IN
    IF id \notin DOMAIN tasks
    THEN Answer(r, "404", "not_found")
    ELSE /\ req' = r
         /\ resp' = Response(IF ResponseValid(tasks[id]) THEN "200" ELSE "500",
                             "returned", <<AsTask(tasks, id)>>, 0)
         /\ UNCHANGED <<tasks, clock, lastId, dialect>>

\* setattr(db_task, field, value) for every field that was sent.
Applied(row, b) ==
    [f \in DOMAIN row |-> IF f \in UpdateData(b) THEN b[f] ELSE row[f]]

\* Variant: updated_at declared without onupdate.
OnUpdateMissing(old, new, now) == new

\* onupdate=datetime.utcnow runs with the UPDATE statement, and the flush
\* emits one only when a value that was set differs from the loaded one.
OnUpdate(old, new, now) ==
    IF \E f \in Fields : new[f] # old[f]
    THEN [new EXCEPT !.updated_at = now]
    ELSE new

\* PUT /tasks/{task_id}
update_task(id, b) ==
    LET r == Request("update", id, b, NoQuery) IN
    IF ~ValidTaskUpdate(b)
    THEN Answer(r, "422", "invalid")
    ELSE IF id \notin DOMAIN tasks
    THEN Answer(r, "404", "not_found")
    ELSE IF ~NotNullOk(Applied(tasks[id], b))
    THEN Answer(r, "500", "db_error")
    ELSE /\ tasks' = [tasks EXCEPT ![id] = OnUpdate(tasks[id], Applied(tasks[id], b), clock)]
         /\ req' = r
         /\ resp' = Response(IF ResponseValid(tasks'[id]) THEN "200" ELSE "500",
                             "returned", <<AsTask(tasks', id)>>, 0)
         /\ UNCHANGED <<clock, lastId, dialect>>

\* Variant: a delete that takes a missing row for already deleted.
delete_task_silent(id) ==
    /\ tasks' = Remove(id)
    /\ req' = Request("delete", id, NoBody, NoQuery)
    /\ resp' = Response("200", "returned", <<>>, 0)
    /\ UNCHANGED <<clock, lastId, dialect>>

\* DELETE /tasks/{task_id}
delete_task(id) ==
    LET r == Request("delete", id, NoBody, NoQuery) IN
    IF id \notin DOMAIN tasks
    THEN Answer(r, "404", "not_found")
    ELSE /\ tasks' = Remove(id)
         /\ req' = r
         /\ resp' = Response("200", "returned", <<>>, 0)
         /\ UNCHANGED <<clock, lastId, dialect>>

\* "if priority:" is a truth test: an empty priority adds no filter.
Truthy(p) == p # Absent /\ TextLen(p) > 0

\* Variant: the completed filter tested for truth like the priority filter,
\* so that completed=false adds no filter.
MatchingTruthy(q) ==
    {i \in DOMAIN tasks :
        /\ q.completed = True => tasks[i].completed = q.completed
        /\ Truthy(q.priority) => tasks[i].priority = q.priority}

Matching(q) ==
    {i \in DOMAIN tasks :
        /\ q.completed # Absent => tasks[i].completed = q.completed
        /\ Truthy(q.priority) => tasks[i].priority = q.priority}

Orders(S) ==
    {o \in [1..Cardinality(S) -> S] : \A j, k \in 1..Cardinality(S) : o[j] = o[k] => j = k}

Ascending(S) == CHOOSE o \in Orders(S) : \A j, k \in 1..Cardinality(S) : j < k => o[j] < o[k]

\* The query has no ORDER BY. SQLite walks the table in rowid order; on any
\* other engine the order of the rows is not specified.
ScanOrders(S) == IF dialect = "sqlite" THEN {Ascending(S)} ELSE Orders(S)

Min(a, b) == IF a < b THEN a ELSE b

\* query.offset(skip).limit(limit).all()
Page(order, skip, limit) == SubSeq(order, skip + 1, Min(skip + limit, Len(order)))

Rows(page) == [k \in 1..Len(page) |-> AsTask(tasks, page[k])]

\* GET /tasks
list_tasks(q, order) ==
    /\ order \in ScanOrders(Matching(q))
    /\ req' = Request("list", 0, NoBody, q)
    /\ resp' = Response(
           IF \A k \in 1..Len(Page(order, q.skip, q.limit)) :
                  ResponseValid(tasks[Page(order, q.skip, q.limit)[k]])
           THEN "200" ELSE "500",
           "returned", Rows(Page(order, q.skip, q.limit)), Cardinality(Matching(q)))
    /\ UNCHANGED <<tasks, clock, lastId, dialect>>

\* The routes the decorators register.
Routes ==
    {<<"GET", "/">>, <<"GET", "/tasks">>, <<"GET", "/tasks/{task_id}">>,
     <<"POST", "/tasks">>, <<"PUT", "/tasks/{task_id}">>,
     <<"DELETE", "/tasks/{task_id}">>, <<"GET", "/health">>}

\* A request for a path no route serves with that method: 405 when the path
\* is served with another method, 404 otherwise.
unrouted(method, path) ==
    /\ <<method, path>> \notin Routes
    /\ Answer(Request(method \o " " \o path, 0, NoBody, NoQuery),
              IF \E rt \in Routes : rt[2] = path THEN "405" ELSE "404",
              "no_route")

\* ------------------------------------------------- runs from the empty store
TitleA == Text("A", TitleMin)
TitleB == Text("B", TitleMax)
TitleTooLong == Text("B", TitleMax + 1)
DescD == Text("d", DescriptionMax)
DescTooLong == Text("d", DescriptionMax + 1)

CreateBodies ==
    {Body(TitleA, Absent, Absent, Absent),
     Body(TitleA, DescD, True, High),
     Body(TitleA, Absent, Absent, Urgent),
     Body(Empty, Absent, True, Absent)}

UpdateBodies ==
    {NoBody,
     Body(Absent, Absent, True, Absent),
     Body(TitleB, Null, Absent, Absent),
     Body(Absent, Absent, Absent, Null),
     Body(Absent, Absent, Null, Low),
     Body(Null, Absent, True, Absent),
     Body(TitleTooLong, Absent, True, Absent),
     Body(Absent, DescTooLong, Absent, Urgent)}

Queries ==
    {Query(s, l, c, NoQuery.priority) :
        s \in {DefaultSkip, 1}, l \in {1, DefaultLimit}, c \in {Absent, True}}

\* task_id: the ids handed out so far and one that never was.
PathIds == 1..(lastId + 1)

\* One step of a run: the run ends after MaxSteps steps.
Counted == steps < MaxSteps /\ steps' = steps + 1

Elapse == Counted /\ Tick

Create == Counted /\ \E b \in CreateBodies, t \in {clock, clock + 1} : create_task(b, t)

Get == Counted /\ \E i \in PathIds : get_task(i)

Update == Counted /\ \E i \in PathIds, b \in UpdateBodies : update_task(i, b)

Delete == Counted /\ \E i \in PathIds : delete_task(i)

List == Counted /\ \E q \in Queries : \E o \in Orders(Matching(q)) : list_tasks(q, o)

DeleteCollection == Counted /\ unrouted("DELETE", "/tasks")

Next == Elapse \/ Create \/ Get \/ Update \/ Delete \/ List \/ DeleteCollection

Spec == Init /\ [][Next]_vars

\* ------------------------------------------ one request on a store in use
\* Rows that create_task and update_task leave behind: as created, updated
\* later, and with the nulls an update can write.
Row(t, d, c, p, created, updated) ==
    [title |-> t, description |-> d, completed |-> c, priority |-> p,
     created_at |-> created, updated_at |-> updated]

SampleRows ==
    {Row(TitleA, Null, False, Medium, 0, 0),
     Row(TitleA, DescD, True, High, 0, 0),
     Row(TitleB, DescD, Null, Null, 0, 1)}

Stores == UNION {[D -> SampleRows] : D \in SUBSET (1..MaxRows)}

AllCreateBodies ==
    {Body(t, d, c, p) :
        t \in {Absent, TitleA, Empty, TitleTooLong},
        d \in {Absent, DescD, DescTooLong},
        c \in {Absent, True, Null},
        p \in {Absent, High, Urgent, Null}}

AllUpdateBodies ==
    {Body(t, d, c, p) :
        t \in {Absent, Null, TitleB, TitleTooLong},
        d \in {Absent, Null, DescD, DescTooLong},
        c \in {Absent, Null, True, False},
        p \in {Absent, Null, Low, Urgent}}

AllQueries ==
    {Query(s, l, c, p) :
        s \in 0..MaxSkip, l \in 0..MaxLimit,
        c \in {Absent, True, False},
        p \in {Absent, Empty, High, Urgent}}

InitOne ==
    /\ steps = 0
    /\ tasks \in Stores
    /\ clock = 1
    /\ dialect \in Dialects
    /\ lastId = MaxRows
    /\ req = [Request("none", 0, NoBody, NoQuery) EXCEPT !.at = 0]
    /\ resp = Response("none", "none", <<>>, 0)

Once == steps = 0 /\ steps' = 1

OneCreate == Once /\ \E b \in AllCreateBodies, t \in {clock, clock + 1} : create_task(b, t)

OneGet == Once /\ \E i \in PathIds : get_task(i)

OneUpdate == Once /\ \E i \in PathIds, b \in AllUpdateBodies : update_task(i, b)

OneDelete == Once /\ \E i \in PathIds : delete_task(i)

OneList == Once /\ \E q \in AllQueries : \E o \in Orders(Matching(q)) : list_tasks(q, o)

NextOne == OneCreate \/ OneGet \/ OneUpdate \/ OneDelete \/ OneList

SpecOne == InitOne /\ [][NextOne]_vars

\* ---------------------------------------------------------------- claims
Completed(t) == {i \in DOMAIN t : t[i].completed = True}

\* This step serves a request of one of the kinds ops.
Serves(ops) == req'.at = steps' /\ req'.op \in ops

\* C1: a successful update_task leaves every field that the payload omits at
\* its old value, gives every field that the payload carries (an explicit
\* null included) exactly the value sent, and changes no other task.
C1_UpdateAppliesExactlySentFields ==
    [][(Serves({"update"}) /\ resp'.outcome = "returned") =>
        /\ req'.id \in DOMAIN tasks
        /\ DOMAIN tasks' = DOMAIN tasks
        /\ \A f \in Fields :
              tasks'[req'.id][f] =
                  IF req'.body[f] = Absent THEN tasks[req'.id][f] ELSE req'.body[f]
        /\ \A j \in DOMAIN tasks \ {req'.id} : tasks'[j] = tasks[j]]_vars

\* C1 witness: an update of one of two tasks that sets the title, clears the
\* description with an explicit null and omits completed.
C1_Witness ==
    /\ req.op = "update"
    /\ resp.status = "200"
    /\ req.body = Body(TitleB, Null, Absent, Low)
    /\ Cardinality(DOMAIN tasks) = 2
    /\ tasks[req.id].title = TitleB
    /\ tasks[req.id].description = Null
    /\ tasks[req.id].completed = True
    /\ tasks[req.id].updated_at = clock

\* C2: every stored task has a priority among low, medium, high.
C2_PriorityAlwaysAllowed ==
    \A i \in DOMAIN tasks : tasks[i].priority \in PriorityPattern

\* C3: DELETE /tasks removes exactly the tasks whose completed is true,
\* leaves every other task untouched and returns the number removed.
C3_DeleteCompletedRemovesCompleted ==
    [][Serves({"DELETE /tasks"}) =>
        /\ DOMAIN tasks' = DOMAIN tasks \ Completed(tasks)
        /\ \A i \in DOMAIN tasks' : tasks'[i] = tasks[i]
        /\ resp'.total = Cardinality(Completed(tasks))]_vars

\* C4: a create or update payload with an empty or over-long title, an
\* over-long description or a priority outside the three values is answered
\* 422 and leaves the table as it was.
Violates(b) ==
    \/ IsText(b.title) /\ (TextLen(b.title) = 0 \/ TextLen(b.title) > TitleMax)
    \/ IsText(b.description) /\ TextLen(b.description) > DescriptionMax
    \/ IsText(b.priority) /\ b.priority \notin {Low, Medium, High}

C4_InvalidPayloadChangesNothing ==
    [][(Serves({"create", "update"}) /\ Violates(req'.body)) =>
        (resp'.status = "422" /\ tasks' = tasks)]_vars

\* C4 witness: an update of an existing, uncompleted task whose payload has
\* an over-long title next to a valid completed=true: rejected, with the
\* task still uncompleted.
C4_Witness ==
    /\ req.op = "update"
    /\ req.id \in DOMAIN tasks
    /\ req.body = Body(TitleTooLong, Absent, True, Absent)
    /\ resp.status = "422"
    /\ tasks[req.id].completed = False

\* C5: delete_task on an id that is not stored answers 404 and changes
\* nothing; on a stored id it removes that row and no other; and as long as
\* the id is not stored, get_task, update_task and delete_task answer 404.
C5_DeleteAndNotFound ==
    [][/\ (Serves({"delete"}) /\ req'.id \notin DOMAIN tasks) =>
              (resp'.status = "404" /\ tasks' = tasks)
       /\ (Serves({"delete"}) /\ req'.id \in DOMAIN tasks) =>
              /\ resp'.status = "200"
              /\ DOMAIN tasks' = DOMAIN tasks \ {req'.id}
              /\ \A j \in DOMAIN tasks' : tasks'[j] = tasks[j]
       /\ (/\ Serves({"get", "update", "delete"})
           /\ resp'.outcome # "invalid"
           /\ req'.id \notin DOMAIN tasks) =>
              (resp'.status = "404" /\ tasks' = tasks)]_vars

\* C5 witness: a get_task answered 404 for an id that was handed out and
\* whose task is gone, while another task is still stored.
C5_Witness ==
    /\ req.op = "get"
    /\ resp.status = "404"
    /\ req.id <= lastId
    /\ req.id \notin DOMAIN tasks
    /\ DOMAIN tasks # {}

\* C6: create_task with a valid payload adds exactly one row and changes no
\* other, fills the omitted fields with completed=false, priority=medium,
\* description=null, and a get_task on the returned id that follows with no
\* request in between returns a task equal to the one create_task returned.
C6_CreateThenGet ==
    [][/\ (Serves({"create"}) /\ ValidTaskCreate(req'.body)) => resp'.status = "201"
       /\ (Serves({"create"}) /\ resp'.status = "201") =>
              /\ Len(resp'.tasks) = 1
              /\ resp'.tasks[1].id \notin DOMAIN tasks
              /\ DOMAIN tasks' = DOMAIN tasks \cup {resp'.tasks[1].id}
              /\ \A j \in DOMAIN tasks : tasks'[j] = tasks[j]
              /\ resp'.tasks[1] = AsTask(tasks', resp'.tasks[1].id)
              /\ resp'.tasks[1].title = req'.body.title
              /\ resp'.tasks[1].description =
                     IF req'.body.description = Absent THEN Null ELSE req'.body.description
              /\ resp'.tasks[1].completed =
                     IF req'.body.completed = Absent THEN False ELSE req'.body.completed
              /\ resp'.tasks[1].priority =
                     IF req'.body.priority = Absent THEN Medium ELSE req'.body.priority
       /\ (/\ req.op = "create"
           /\ resp.status = "201"
           /\ Serves({"get"})
           /\ req'.id = resp.tasks[1].id) =>
              (resp'.status = "200" /\ resp'.tasks = resp.tasks)]_vars

\* C6 witness: the second request of a run is a get_task that returns the
\* task the first request created from a payload with only a title.
C6_Witness ==
    /\ req.op = "get"
    /\ req.at = 2
    /\ resp.status = "200"
    /\ resp.tasks[1].title = TitleA
    /\ resp.tasks[1].description = Null
    /\ resp.tasks[1].completed = False
    /\ resp.tasks[1].priority = Medium

\* A task passes the filters of a query: completed when it is given, and
\* priority when a non-empty one is given.
Passes(t, q) ==
    /\ q.completed # Absent => t.completed = q.completed
    /\ (q.priority # Absent /\ q.priority # Empty) => t.priority = q.priority

C9_IdsNeverReused ==
    [][/\ Serves({"update"}) => DOMAIN tasks' = DOMAIN tasks
       /\ \A i \in DOMAIN tasks' \ DOMAIN tasks : i > lastId]_vars

\* C10: the tasks that list_tasks returns are the elements skip+1 ..
\* skip+limit of the tasks that pass the filters, in ascending id order.
C10_PageOfAscendingIds ==
    [][Serves({"list"}) =>
        resp'.tasks =
            Rows(Page(Ascending({i \in DOMAIN tasks : Passes(tasks[i], req'.query)}),
                      req'.query.skip, req'.query.limit))]_vars
====
